---- MODULE Spec2Model ----
(***************************************************************************)
(* flash.image.style_transfer.model.StyleTransfer: the constructor, the    *)
(* assembly of the perceptual loss, the modified Gram operator and the     *)
(* training / validation / test steps.                                     *)
(*                                                                         *)
(* Images are tiny tensors (a tuple of pixel values); an encoder layer     *)
(* turns an image into a C x N feature matrix; scores are exact rationals  *)
(* [num, den] in lowest terms.                                             *)
(***************************************************************************)
EXTENDS Integers, Sequences, FiniteSets, TLC

VARIABLES
    args,           \* the arguments the constructor is called with
    baseGramNorm,   \* what ops.GramOperator's own normalisation divides by
    externalSync,   \* whether the trainer runs one step at a time
    task,           \* the StyleTransfer instance
    calls,          \* the calls __init__ made, in order
    pc,             \* each caller's position inside training_step
    input_image,    \* training_step's local input_image, per caller
    output_image,   \* training_step's local output_image, per caller
    evals,          \* the loss evaluations made so far
    raised,         \* the signals validation_step / test_step raised
    forwards,       \* the model forward computations made so far
    nsteps          \* steps started so far

vars == <<args, baseGramNorm, externalSync, task, calls, pc, input_image,
          output_image, evals, raised, forwards, nsteps>>

---------------------------------------------------------------------------
(* Bounds of the model *)

MaxSteps == 3

Callers == {"t1", "t2"}

\* the absent value of an optional image / object
None == <<>>

\* batches' input images and in-memory style tensors
Images == {<<0, 1>>, <<2, 1>>, <<2, 2>>}

StyleTensors == {<<1, 2>>}

---------------------------------------------------------------------------
(* Exact rationals *)

RECURSIVE GCD(_, _)
GCD(a, b) == IF b = 0 THEN a ELSE GCD(b, a % b)

Rat(n, d) ==
    LET g == GCD(n, d)
    IN  IF n = 0 THEN [num |-> 0, den |-> 1] ELSE [num |-> n \div g, den |-> d \div g]

RAdd(x, y) == Rat(x.num * y.den + y.num * x.den, x.den * y.den)

RScale(k, x) == Rat(k * x.num, x.den)

Zero == Rat(0, 1)

\* F(1) + ... + F(n)
RECURSIVE Sum(_, _)
Sum(F(_), n) == IF n = 0 THEN 0 ELSE Sum(F, n - 1) + F(n)

\* F(1) + ... + F(n), of rationals
RECURSIVE RSum(_, _)
RSum(F(_), n) == IF n = 0 THEN Zero ELSE RAdd(RSum(F, n - 1), F(n))

\* the tuple <<F(1), ..., F(n)>>
RECURSIVE Tabulate(_, _)
Tabulate(F(_), n) == IF n = 0 THEN <<>> ELSE Append(Tabulate(F, n - 1), F(n))

---------------------------------------------------------------------------
(* The collaborators: image files, stock images, the backbone registry,   *)
(* the multi-layer encoder, the transformer.                              *)

GoodPaths == {"style.jpg"}

Paths == GoodPaths \cup {"missing.jpg"}

\* pystiche.image.read_image
read_image(path) ==
    IF path \in GoodPaths THEN [ok |-> TRUE, image |-> <<2, 2>>]
    ELSE [ok |-> FALSE, image |-> None]

\* pystiche.demo.images()[name].read(size=size)
StockRead(name, size) ==
    IF name = "paint" /\ size = 256 THEN <<2, 0>>
    ELSE IF name = "paint" THEN <<2, 0, 2, 0>>
    ELSE <<0, 2>>

\* STYLE_TRANSFER_BACKBONES
RegisteredBackbones == {"vgg16"}

\* the layers of the multi-layer encoder a backbone's factory produces
EncoderLayers(backbone) == {"relu1_2", "relu2_2", "relu3_3"}

NumChannels(layer) ==
    CASE layer = "relu1_2" -> 2
      [] layer = "relu2_2" -> 3
      [] OTHER -> 1

LayerBias(layer) ==
    CASE layer = "relu1_2" -> 1
      [] layer = "relu2_2" -> 0
      [] OTHER -> 2

\* the encoding of an image at a layer: a C x N matrix
Encode(layer, img) ==
    LET channel(c) ==
            LET at(n) == LET v == c * img[n] - LayerBias(layer) IN IF v > 0 THEN v ELSE 0
            IN  Tabulate(at, Len(img))
    IN  Tabulate(channel, NumChannels(layer))

\* the given module, or pystiche.demo.transformer()
ModelForward(model, img) ==
    LET demo(n) == (img[n] + n) % 3
        flat(n) == 1
    IN  IF model = "demo" THEN Tabulate(demo, Len(img)) ELSE Tabulate(flat, Len(img))

---------------------------------------------------------------------------
(* pystiche's operators, as the task uses them *)

RMul(x, y) == Rat(x.num * y.num, x.den * y.den)

\* torch mse_loss of two rows x cols matrices a / da and b / db
mse_loss(a, da, b, db, rows, cols) ==
    LET row(i) ==
            LET sq(j) == LET d == a[i][j] * db - b[i][j] * da IN d * d
            IN  Sum(sq, cols)
    IN  Rat(Sum(row, rows), da * da * db * db * rows * cols)

\* pystiche.gram_matrix without normalisation: G[i][j] = sum_n enc[i][n] * enc[j][n]
gram_matrix(enc) ==
    LET row(i) ==
            LET entry(j) == LET prod(n) == enc[i][n] * enc[j][n] IN Sum(prod, Len(enc[1]))
            IN  Tabulate(entry, Len(enc))
    IN  Tabulate(row, Len(enc))

\* what the base operator's normalisation divides the Gram matrix by
BaseDivisor(enc) == IF baseGramNorm = "channels" THEN Len(enc) ELSE Len(enc[1])

\* ops.GramOperator.enc_to_repr: a 1 x C x C tensor, num / den entrywise
Base_enc_to_repr(enc) ==
    [size |-> <<1, Len(enc), Len(enc)>>, num |-> gram_matrix(enc), den |-> BaseDivisor(enc)]

\* the bug: the batch dimension is taken for the channel count
Mut_enc_to_repr(enc) ==
    LET repr == Base_enc_to_repr(enc)
        num_channels == repr.size[1]
    IN  [repr EXCEPT !.den = @ * num_channels]

\* StyleTransfer._modified_gram_loss.GramOperator.enc_to_repr
enc_to_repr(enc) ==
    LET repr == Base_enc_to_repr(enc)
        num_channels == repr.size[2]
    IN  [repr EXCEPT !.den = @ * num_channels]

\* StyleTransfer._modified_gram_loss: GramOperator(encoder, score_weight=score_weight)
modified_gram_loss(layer, score_weight) ==
    [layer |-> layer, score_weight |-> score_weight]

\* layer_weights="sum": every layer weighs 1 ("mean": 1 / number of layers)
LayerWeight(layer_weights, n) == IF layer_weights = "sum" THEN Rat(1, 1) ELSE Rat(1, n)

\* ops.MultiLayerEncodingOperator(mle, layers, get_encoding_op, layer_weights, score_weight)
MultiLayerEncodingOperator(layers, layer_weights, score_weight) ==
    LET get_op(i) == modified_gram_loss(layers[i], LayerWeight(layer_weights, Len(layers)))
    IN  [ops |-> Tabulate(get_op, Len(layers)), score_weight |-> score_weight]

\* ops.FeatureReconstructionOperator(encoder, score_weight)
FeatureReconstructionOperator(layer, score_weight) ==
    [layer |-> layer, score_weight |-> score_weight]

\* the mean squared difference of the encodings at a layer
ContentTerm(layer, input, content) ==
    LET a == Encode(layer, input)
        b == Encode(layer, content)
    IN  mse_loss(a, 1, b, 1, Len(a), Len(a[1]))

\* the score of the content operator on an input, against the bound content image
ContentScore(op, input, content) ==
    RScale(op.score_weight, ContentTerm(op.layer, input, content))

\* the mean squared difference of the modified Gram representations at a layer
GramTerm(layer, input, style) ==
    LET a == enc_to_repr(Encode(layer, input))
        b == enc_to_repr(Encode(layer, style))
    IN  mse_loss(a.num, a.den, b.num, b.den, a.size[2], a.size[3])

\* the score of one layer's Gram operator
GramScore(op, input, style) == RMul(op.score_weight, GramTerm(op.layer, input, style))

\* the score of the multi-layer style operator
StyleScore(op, input, style) ==
    LET score(i) == GramScore(op.ops[i], input, style)
    IN  RScale(op.score_weight, RSum(score, Len(op.ops)))

\* loss.PerceptualLoss(content_loss, style_loss)(input).total()
Total(pl, input) ==
    RAdd(ContentScore(pl.content_loss, input, pl.content_image),
         StyleScore(pl.style_loss, input, pl.style_image))

\* the bug: the image stays bound once one is bound
Mut_set_content_image(pl, image) ==
    IF pl.content_image = None THEN [pl EXCEPT !.content_image = image] ELSE pl

\* the bug: the image is added to the one bound before
Mut_accumulate_content_image(pl, image) ==
    IF pl.content_image = None THEN [pl EXCEPT !.content_image = image]
    ELSE LET sum(n) == pl.content_image[n] + image[n]
         IN  [pl EXCEPT !.content_image = Tabulate(sum, Len(image))]

\* the bug: both image references are written
Mut_clobber_content_image(pl, image) ==
    [pl EXCEPT !.content_image = image, !.style_image = image]

\* PerceptualLoss.set_content_image
set_content_image(pl, image) == [pl EXCEPT !.content_image = image]

\* PerceptualLoss.set_style_image
set_style_image(pl, image) == [pl EXCEPT !.style_image = image]

---------------------------------------------------------------------------
(* StyleTransfer.__init__ *)

DefaultStyleSize == 256

DefaultStyleName == "paint"

\* the bug: the per-layer scores are averaged
Mut_StyleLayerWeights == "mean"

\* layer_weights="sum"
StyleLayerWeights == "sum"

Call(fn, arg) == [fn |-> fn, arg |-> arg]

\* StyleTransfer.default_style_image
default_style_image == StockRead(DefaultStyleName, DefaultStyleSize)

\* the bug: a tensor is taken for something to load
Mut_ResolveStyle(style_image) ==
    CASE style_image.kind = "none" ->
            [ok |-> TRUE, image |-> default_style_image,
             calls |-> <<Call("images.read", DefaultStyleName)>>]
      [] OTHER ->
            [ok |-> read_image(style_image.path).ok,
             image |-> read_image(style_image.path).image,
             calls |-> <<Call("read_image", style_image.path)>>]

\* the style image the constructor resolves from its style_image argument
ResolveStyle(style_image) ==
    CASE style_image.kind = "none" ->
            [ok |-> TRUE, image |-> default_style_image,
             calls |-> <<Call("images.read", DefaultStyleName)>>]
      [] style_image.kind = "path" ->
            [ok |-> read_image(style_image.path).ok,
             image |-> read_image(style_image.path).image,
             calls |-> <<Call("read_image", style_image.path)>>]
      [] OTHER ->
            [ok |-> TRUE, image |-> style_image.tensor, calls |-> <<>>]

\* the model the constructor resolves from its model argument
ResolveModel(model) ==
    IF model = "None"
    THEN [model |-> "demo", calls |-> <<Call("demo.transformer", "")>>]
    ELSE [model |-> model, calls |-> <<>>]

\* the index of the first layer name the encoder does not know, 0 when it knows all
FirstUnknown(layers, known) ==
    LET bad == {i \in 1..Len(layers) : layers[i] \notin known}
    IN  IF bad = {} THEN 0 ELSE CHOOSE i \in bad : \A j \in bad : i <= j

\* StyleTransfer._get_perceptual_loss: the loss (None when a lookup fails), the
\* error and the calls made
get_perceptual_loss(backbone, content_layer, content_weight, style_layers, style_weight) ==
    LET known == EncoderLayers(backbone)
        get   == <<Call("backbones.get", backbone)>>
        cont  == get \o <<Call("extract_encoder", content_layer)>>
        k     == FirstUnknown(style_layers, known)
        upto  == IF k = 0 THEN Len(style_layers) ELSE k
        styl  == cont \o [i \in 1..upto |-> Call("extract_encoder", style_layers[i])]
    IN  IF backbone \notin RegisteredBackbones
        THEN [ok |-> FALSE, error |-> "unknown backbone", calls |-> get, loss |-> None]
        ELSE IF content_layer \notin known
        THEN [ok |-> FALSE, error |-> "unknown layer", calls |-> cont, loss |-> None]
        ELSE IF k # 0
        THEN [ok |-> FALSE, error |-> "unknown layer", calls |-> styl, loss |-> None]
        ELSE [ok |-> TRUE, error |-> "", calls |-> styl \o <<Call("PerceptualLoss", "")>>,
              loss |-> <<[content_loss |->
                              FeatureReconstructionOperator(content_layer, content_weight),
                          style_loss |->
                              MultiLayerEncodingOperator(style_layers, StyleLayerWeights, style_weight),
                          content_image |-> None,
                          style_image |-> None]>>]

\* __init__ up to and including perceptual_loss.set_style_image(style_image)
InitBody(a) ==
    LET hp    == <<Call("save_hyperparameters", "style_image")>>
        style == ResolveStyle(a.style_image)
        model == ResolveModel(a.model)
        pl    == get_perceptual_loss(a.backbone, a.content_layer, a.content_weight,
                                     a.style_layers, a.style_weight)
    IN  IF ~style.ok
        THEN [ok |-> FALSE, error |-> "image loading failed", calls |-> hp \o style.calls,
              model |-> "None", loss |-> None]
        ELSE IF ~pl.ok
        THEN [ok |-> FALSE, error |-> pl.error,
              calls |-> hp \o style.calls \o model.calls \o pl.calls,
              model |-> model.model, loss |-> None]
        ELSE [ok |-> TRUE, error |-> "",
              calls |-> hp \o style.calls \o model.calls \o pl.calls
                           \o <<Call("set_style_image", "")>>,
              model |-> model.model,
              loss |-> <<set_style_image(pl.loss[1], style.image)>>]

\* the bug: the base constructor runs, and the loss is kept, whatever failed
Mut_StyleTransfer_init(a) ==
    LET b == InitBody(a)
    IN  [status |-> IF b.ok THEN "ready" ELSE "failed", error |-> b.error,
         base_init |-> TRUE,
         model |-> b.model, perceptual_loss |-> b.loss,
         calls |-> b.calls \o <<Call("Task.__init__", "")>>]

\* StyleTransfer.__init__: the instance it leaves and the calls it made
StyleTransfer_init(a) ==
    LET b == InitBody(a)
    IN  IF b.ok
        THEN [status |-> "ready", error |-> "", base_init |-> TRUE,
              model |-> b.model, perceptual_loss |-> b.loss,
              calls |-> b.calls \o <<Call("Task.__init__", "")>>]
        ELSE [status |-> "failed", error |-> b.error, base_init |-> FALSE,
              model |-> "None", perceptual_loss |-> None,
              calls |-> b.calls]

---------------------------------------------------------------------------
(* The state machine *)

StyleArgs ==
    {[kind |-> "none", path |-> "", tensor |-> None]}
    \cup {[kind |-> "path", path |-> p, tensor |-> None] : p \in Paths}
    \cup {[kind |-> "tensor", path |-> "", tensor |-> t] : t \in StyleTensors}

Args ==
    [style_image : StyleArgs,
     model : {"None", "flat"},
     backbone : {"vgg16", "resnet"},
     content_layer : {"relu2_2", "conv9"},
     content_weight : {0, 2},
     style_layers : {<<"relu1_2", "relu2_2">>, <<"relu1_2", "pool7", "pool7">>},
     style_weight : {3}]

Init ==
    /\ args \in Args
    /\ baseGramNorm \in {"channels", "numel"}
    /\ externalSync \in BOOLEAN
    /\ task = [status |-> "new", error |-> "", base_init |-> FALSE, model |-> "None",
               perceptual_loss |-> None]
    /\ calls = <<>>
    /\ pc = [t \in Callers |-> "idle"]
    /\ input_image = [t \in Callers |-> None]
    /\ output_image = [t \in Callers |-> None]
    /\ evals = {}
    /\ raised = {}
    /\ forwards = {}
    /\ nsteps = 0

\* StyleTransfer(**args)
Construct ==
    /\ task.status = "new"
    /\ LET r == StyleTransfer_init(args)
       IN  /\ task' = [status |-> r.status, error |-> r.error, base_init |-> r.base_init,
                       model |-> r.model, perceptual_loss |-> r.perceptual_loss]
           /\ calls' = r.calls
    /\ UNCHANGED <<args, baseGramNorm, externalSync, pc, input_image, output_image,
                   evals, raised, forwards, nsteps>>

\* the trainer's guarantee, when it gives one: no step starts while another runs
MayStart(t) ==
    /\ task.status = "ready"
    /\ pc[t] = "idle"
    /\ nsteps < MaxSteps
    /\ externalSync => \A u \in Callers : pc[u] = "idle"

\* training_step, lines 112-113: input_image = batch[INPUT]; set_content_image
TrainingStep_Bind(t, batch) ==
    /\ MayStart(t)
    /\ input_image' = [input_image EXCEPT ![t] = batch]
    /\ task' = [task EXCEPT !.perceptual_loss =
                    <<set_content_image(task.perceptual_loss[1], batch)>>]
    /\ pc' = [pc EXCEPT ![t] = "forward"]
    /\ nsteps' = nsteps + 1
    /\ UNCHANGED <<args, baseGramNorm, externalSync, calls, output_image, evals,
                   raised, forwards>>

\* training_step, line 115: output_image = self(input_image)
TrainingStep_Forward(t) ==
    /\ pc[t] = "forward"
    /\ output_image' = [output_image EXCEPT ![t] = ModelForward(task.model, input_image[t])]
    /\ forwards' = forwards \cup {[op |-> "training_step", input |-> input_image[t]]}
    /\ pc' = [pc EXCEPT ![t] = "loss"]
    /\ UNCHANGED <<args, baseGramNorm, externalSync, task, calls, input_image, evals,
                   raised, nsteps>>

\* training_step, line 116: return self.perceptual_loss(output_image).total()
TrainingStep_Loss(t) ==
    /\ pc[t] = "loss"
    /\ evals' = evals \cup {[input |-> input_image[t],
                             content |-> task.perceptual_loss[1].content_image,
                             output |-> output_image[t],
                             loss |-> Total(task.perceptual_loss[1], output_image[t])]}
    /\ pc' = [pc EXCEPT ![t] = "idle"]
    /\ input_image' = [input_image EXCEPT ![t] = None]
    /\ output_image' = [output_image EXCEPT ![t] = None]
    /\ UNCHANGED <<args, baseGramNorm, externalSync, task, calls, raised, forwards, nsteps>>

\* _utils.raise_not_supported(phase)
raise_not_supported(phase) == [signal |-> "not supported", phase |-> phase]

\* the bug: the name of the other step
Mut_ValidationPhase == "test"

\* the phase validation_step names
ValidationPhase == "validation"

\* the phase test_step names
TestPhase == "test"

\* StyleTransfer.validation_step
validation_step(t, batch) ==
    /\ MayStart(t)
    /\ raised' = raised \cup {[op |-> "validation_step",
                               outcome |-> raise_not_supported(ValidationPhase)]}
    /\ nsteps' = nsteps + 1
    /\ UNCHANGED <<args, baseGramNorm, externalSync, task, calls, pc, input_image,
                   output_image, evals, forwards>>

\* StyleTransfer.test_step
test_step(t, batch) ==
    /\ MayStart(t)
    /\ raised' = raised \cup {[op |-> "test_step",
                               outcome |-> raise_not_supported(TestPhase)]}
    /\ nsteps' = nsteps + 1
    /\ UNCHANGED <<args, baseGramNorm, externalSync, task, calls, pc, input_image,
                   output_image, evals, forwards>>

Next ==
    \/ Construct
    \/ \E t \in Callers, batch \in Images : TrainingStep_Bind(t, batch)
    \/ \E t \in Callers : TrainingStep_Forward(t)
    \/ \E t \in Callers : TrainingStep_Loss(t)
    \/ \E t \in Callers, batch \in Images : validation_step(t, batch)
    \/ \E t \in Callers, batch \in Images : test_step(t, batch)

Spec == Init /\ [][Next]_vars

---------------------------------------------------------------------------
(* Properties *)

\* the perceptual loss the task holds
PL == task.perceptual_loss[1]

Busy == {t \in Callers : pc[t] # "idle"}

EvalInputs == {e.input : e \in evals}

\* C1: in a training step the batch's input image is bound as the content image
\* first, the model then runs forward on that input, and the loss is evaluated
\* on the model's output last; so over non-overlapping steps every loss
\* evaluation sees the input image of its own batch as the bound content image.
C1_ContentIsOwnBatch ==
    externalSync =>
        /\ \A t \in Busy : PL.content_image = input_image[t]
        /\ \A t \in Callers :
              /\ pc[t] = "forward" => output_image[t] = None
              /\ pc[t] = "loss" => output_image[t] = ModelForward(task.model, input_image[t])
        /\ \A e \in evals :
              /\ e.content = e.input
              /\ e.output = ModelForward(task.model, e.input)

\* two steps on different batches are over and a third is about to evaluate
C1_Witness ==
    /\ externalSync
    /\ Cardinality(EvalInputs) = 2
    /\ \E t \in Callers : pc[t] = "loss" /\ PL.content_image = input_image[t]

\* C2: validation_step and test_step fail with the unsupported-operation signal
\* that names "validation" and "test", for any batch and after any steps, and no
\* model forward computation is made by either.
C2_StepsNotSupported ==
    /\ \A r \in raised :
          /\ r.outcome.signal = "not supported"
          /\ r.op = "validation_step" => r.outcome.phase = "validation"
          /\ r.op = "test_step" => r.outcome.phase = "test"
    /\ \A f \in forwards : f.op = "training_step"
    /\ \A f \in forwards :
          \/ f.input \in EvalInputs
          \/ \E t \in Busy : input_image[t] = f.input

\* both steps were called after a training step, and only that one ran the model
C2_Witness ==
    /\ \E r \in raised : r.op = "validation_step"
    /\ \E r \in raised : r.op = "test_step"
    /\ Cardinality(forwards) = 1
    /\ evals # {}

\* C8: two training steps on identical batches return identical losses,
\* whichever batches were processed before or between them (steps not
\* overlapping): the value about to be returned equals every value returned
\* for that input before.
C8_SameBatchSameLoss ==
    externalSync =>
        /\ \A e1, e2 \in evals : e1.input = e2.input => e1.loss = e2.loss
        /\ \A t \in Callers : \A e \in evals :
              (pc[t] = "loss" /\ e.input = input_image[t])
                  => Total(PL, output_image[t]) = e.loss

\* a batch was processed, then another one, and the first is processed again
C8_Witness ==
    /\ externalSync
    /\ nsteps = 3
    /\ Cardinality(EvalInputs) = 2
    /\ \E t \in Callers, e \in evals :
          /\ pc[t] = "loss"
          /\ e.input = input_image[t]
          /\ PL.content_image = input_image[t]
          /\ e.loss.num # 0

\* C10: nothing guards the bound content image; with the trainer running one
\* step at a time, a step evaluates the loss only with its own input bound (the
\* witness is the state two interleaved steps reach without that guarantee).
C10_OneStepAtATime ==
    externalSync =>
        /\ Cardinality(Busy) <= 1
        /\ \A t \in Callers : pc[t] = "loss" => PL.content_image = input_image[t]
        /\ \A e \in evals : e.content = e.input

\* two steps interleave and one is at its loss evaluation with the other's input bound
C10_Witness ==
    /\ ~externalSync
    /\ \E t, u \in Callers :
          /\ t # u
          /\ pc[t] = "loss"
          /\ pc[u] # "idle"
          /\ input_image[u] # input_image[t]
          /\ PL.content_image = input_image[u]

Constructed == task.status # "new"

LoadCalls == {i \in 1..Len(calls) : calls[i].fn \in {"read_image", "images.read"}}

\* C3: the constructor binds the stock image "paint" read at size 256 when no
\* style image is given, the image loaded from the path when a path is given,
\* and the given tensor itself, loading nothing, when a tensor is given.
C3_StyleImageResolved ==
    /\ (task.status = "ready" /\ args.style_image.kind = "none") =>
          /\ PL.style_image = StockRead("paint", 256)
          /\ \A i \in LoadCalls : calls[i] = Call("images.read", "paint")
          /\ Cardinality(LoadCalls) = 1
    /\ (task.status = "ready" /\ args.style_image.kind = "path") =>
          /\ PL.style_image = read_image(args.style_image.path).image
          /\ \A i \in LoadCalls : calls[i] = Call("read_image", args.style_image.path)
          /\ Cardinality(LoadCalls) = 1
    /\ (task.status = "ready" /\ args.style_image.kind = "tensor") =>
          PL.style_image = args.style_image.tensor
    /\ (Constructed /\ args.style_image.kind = "tensor") =>
          /\ LoadCalls = {}
          /\ task.error # "image loading failed"

\* a task was built from a tensor, which is the bound style image, and nothing was loaded
C3_Witness ==
    /\ task.status = "ready"
    /\ args.style_image.kind = "tensor"
    /\ PL.style_image = args.style_image.tensor
    /\ PL.style_image # StockRead("paint", 256)
    /\ LoadCalls = {}

CallsOf(fn) == {i \in 1..Len(calls) : calls[i].fn = fn}

\* C4: the style image is bound once, in the constructor and before the base
\* constructor is invoked; afterwards no step changes it, and the bound content
\* image is the only field of the perceptual loss that differs from what the
\* constructor built.
C4_StyleBoundOnce ==
    task.status = "ready" =>
        /\ Cardinality(CallsOf("set_style_image")) = 1
        /\ Cardinality(CallsOf("Task.__init__")) = 1
        /\ \A i \in CallsOf("set_style_image") : \A j \in CallsOf("Task.__init__") : i < j
        /\ task.base_init
        /\ PL.style_image = ResolveStyle(args.style_image).image
        /\ [PL EXCEPT !.content_image = None]
              = StyleTransfer_init(args).perceptual_loss[1]

\* steps of all three kinds were made, content images changed, the style image is bound
C4_Witness ==
    /\ task.status = "ready"
    /\ evals # {}
    /\ raised # {}
    /\ PL.content_image # None
    /\ \E e \in evals : e.content # PL.content_image
    /\ PL.style_image = ResolveStyle(args.style_image).image

\* content_weight * content term + style_weight * (sum of the layers' style terms)
WeightedSum(input, content, style) ==
    RAdd(RScale(args.content_weight, ContentTerm(args.content_layer, input, content)),
         RScale(args.style_weight,
                LET term(i) == GramTerm(args.style_layers[i], input, style)
                IN  RSum(term, Len(args.style_layers))))

\* the callers whose training step is at its loss evaluation (line 116)
AtLoss == {t \in Callers : pc[t] = "loss"}

\* C5: the total of the assembled perceptual loss is content_weight times the
\* content term at the content layer plus style_weight times the plain sum of
\* the style terms of the style layers: that is the value every loss evaluation
\* of a training step returns.
C5_TotalIsWeightedSum ==
    \A t \in AtLoss :
        Total(PL, output_image[t])
            = WeightedSum(output_image[t], PL.content_image, PL.style_image)

\* a loss evaluation over two style layers with both terms and both weights in play
C5_Witness ==
    \E t \in AtLoss :
        /\ Len(args.style_layers) = 2
        /\ args.content_weight = 2
        /\ args.style_weight = 3
        /\ ContentTerm(args.content_layer, output_image[t], PL.content_image).num # 0
        /\ \A i \in 1..2 :
              GramTerm(args.style_layers[i], output_image[t], PL.style_image).num # 0
        /\ Total(PL, output_image[t]).num # 0

\* the encodings the Gram operators of the style layers meet in the loss
\* evaluations under way: of the output image and of the style image
StyleEncodings ==
    {Encode(args.style_layers[i], img) :
        i \in 1..Len(args.style_layers),
        img \in {output_image[t] : t \in AtLoss} \cup {PL.style_image}}

\* repr is the Gram matrix of enc divided entrywise by divisor
IsGramOver(repr, enc, divisor) ==
    LET gram == gram_matrix(enc)
    IN  \A i, j \in 1..Len(enc) : repr.num[i][j] * divisor = gram[i][j] * repr.den

\* repr is the base operator's representation of enc divided by the channel count
IsBaseOverChannels(repr, enc) ==
    LET base == Base_enc_to_repr(enc)
    IN  /\ repr.size = base.size
        /\ \A i, j \in 1..Len(enc) :
              repr.num[i][j] * base.den * Len(enc) = base.num[i][j] * repr.den

OwnContentScore(e) ==
    RScale(args.content_weight, ContentTerm(args.content_layer, e.output, e.input))

\* C7 as stated: two loss evaluations on the same output with different bound
\* content images return different scalars.
C7_AsStated ==
    \A e1, e2 \in evals :
        (e1.output = e2.output /\ e1.content # e2.content) => e1.loss # e2.loss

\* C7, amended: a loss evaluation uses the content image bound for it, not an
\* earlier one; two evaluations on the same output return different scalars
\* exactly when content_weight times the content term differs between the two
\* bound content images.
C7_FreshContentDecides ==
    externalSync =>
        /\ \A e \in evals : e.loss = WeightedSum(e.output, e.input, PL.style_image)
        /\ \A e1, e2 \in evals :
              e1.output = e2.output =>
                  ((e1.loss = e2.loss) <=> (OwnContentScore(e1) = OwnContentScore(e2)))

\* the same output was evaluated against three content images: two of them
\* give the same scalar, the third another one
C7_Witness ==
    /\ externalSync
    /\ \E e1, e2, e3 \in evals :
          /\ e1.output = e2.output /\ e2.output = e3.output
          /\ e1.content # e2.content /\ e2.content # e3.content /\ e1.content # e3.content
          /\ e1.loss = e2.loss
          /\ e1.loss # e3.loss

\* what made the constructor fail, if anything, in the order it meets the arguments
BadArgument ==
    IF args.style_image.kind = "path" /\ ~read_image(args.style_image.path).ok
    THEN Call("read_image", args.style_image.path)
    ELSE IF args.backbone \notin RegisteredBackbones
    THEN Call("backbones.get", args.backbone)
    ELSE IF args.content_layer \notin EncoderLayers(args.backbone)
    THEN Call("extract_encoder", args.content_layer)
    ELSE IF FirstUnknown(args.style_layers, EncoderLayers(args.backbone)) # 0
    THEN Call("extract_encoder",
              args.style_layers[FirstUnknown(args.style_layers, EncoderLayers(args.backbone))])
    ELSE Call("", "")

\* C9: a style image that cannot be loaded, an unknown backbone or an unknown
\* content or style layer makes the constructor fail: the base constructor is
\* not invoked, no perceptual loss is bound to the task, and the failing load or
\* lookup is the last call made and was made once.
C9_ConstructionFailureIsFatal ==
    /\ Constructed => (task.status = "failed" <=> BadArgument # Call("", ""))
    /\ task.status = "failed" =>
          /\ ~task.base_init
          /\ task.perceptual_loss = None
          /\ CallsOf("Task.__init__") = {}
          /\ CallsOf("set_style_image") = {}
          /\ calls[Len(calls)] = BadArgument
          /\ Cardinality({i \in 1..Len(calls) : calls[i] = BadArgument}) = 1
          /\ task.error # ""
          /\ nsteps = 0

\* the constructor failed on a style layer the encoder does not know, named twice
C9_Witness ==
    /\ task.status = "failed"
    /\ task.error = "unknown layer"
    /\ BadArgument = Call("extract_encoder", "pool7")
    /\ Cardinality({i \in 1..Len(args.style_layers) : args.style_layers[i] = "pool7"}) = 2
    /\ Cardinality(CallsOf("extract_encoder")) = 3

====
